---- MODULE Spec2Model ----
(***************************************************************************)
(* The FHIR bundle pre-processing script (script.py): the reference index  *)
(* builder, the global identifier aggregator, the recursive tree rewriter  *)
(* replace_references, the Coverage injector and the batch driver main.    *)
(*                                                                         *)
(* A Python str is a TLA+ string, the sequence of its characters, so that  *)
(* startswith, replace, split, "in" and the two regular expressions are    *)
(* computed on the characters as the code computes them.  A JSON value is  *)
(* a tagged record: [t |-> "null"], [t |-> "bool", v], [t |-> "num", v],   *)
(* [t |-> "str", v], [t |-> "list", v |-> sequence], [t |-> "obj", v |->   *)
(* function from field names to values].  Python's None is JSON null: the  *)
(* rewriter's "remove me" result and a null read from the file are the     *)
(* same value, as they are in the code.                                    *)
(***************************************************************************)
EXTENDS Integers, Sequences, FiniteSets, TLC

VARIABLES
  files,       \* the *.json files of the directory, in glob order: [name, data], data a JSON value or Malformed
  pc,          \* position of main: "start", "aggregate", "process", "done"
  idx,         \* index in json_files of the next file of the running loop
  run,         \* number of runs of main started
  json_files,  \* main's list of files (indices into files), taken by the glob
  global_identifier_map, \* build_global_identifier_map's accumulator / result
  updated,     \* the names of the files process_json_file has written back
  tree,        \* a call of replace_references alone: the value handed to the last call
  out,         \*   the value the last call returned
  env,         \*   the maps and ids the calls are given
  passes       \*   the number of calls made

vars == <<files, pc, idx, run, json_files, global_identifier_map, updated, tree, out, env, passes>>

----------------------------------------------------------------------------
(* Python str.  A str of the program is a TLA+ string, that is, the        *)
(* sequence of its characters: Len, \o and SubSeq are the sequence          *)
(* operators, and a character is a string of length one.  startswith,       *)
(* replace, split, "in", the f-strings and the two regular expressions are  *)
(* computed on the characters, as the code computes them.                   *)

Digits == {"0", "1", "2", "3", "4", "5", "6", "7", "8", "9"}
LowerCase == {"a", "b", "c", "d", "e", "f", "g", "h", "i", "j", "k", "l", "m",
              "n", "o", "p", "q", "r", "s", "t", "u", "v", "w", "x", "y", "z"}
UpperCase == {"A", "B", "C", "D", "E", "F", "G", "H", "I", "J", "K", "L", "M",
              "N", "O", "P", "Q", "R", "S", "T", "U", "V", "W", "X", "Y", "Z"}
\* [0-9a-fA-F]
HexChars == Digits \cup {"a", "b", "c", "d", "e", "f"} \cup {"A", "B", "C", "D", "E", "F"}
\* \w (over the ASCII characters the model uses)
WordChars == Digits \cup LowerCase \cup UpperCase \cup {"_"}

\* the character of s at index i
CharAt(s, i) == SubSeq(s, i, i)

\* p occurs in s at index i
MatchAt(s, p, i) ==
  /\ i >= 1
  /\ i + Len(p) - 1 <= Len(s)
  /\ SubSeq(s, i, i + Len(p) - 1) = p

\* the index of the first occurrence of p in s at or after from, 0 if there is none
FindFrom(s, p, from) ==
  LET hits == {i \in from..Len(s) : MatchAt(s, p, i)}
  IN  IF hits = {} THEN 0 ELSE CHOOSE i \in hits : \A j \in hits : i <= j

\* every non-overlapping occurrence of p in s, left to right, removed
RECURSIVE Remove(_, _)
Remove(s, p) ==
  IF Len(s) = 0 THEN s
  ELSE IF MatchAt(s, p, 1) THEN Remove(SubSeq(s, Len(p) + 1, Len(s)), p)
  ELSE CharAt(s, 1) \o Remove(SubSeq(s, 2, Len(s)), p)

\* the length of the run of characters of cs in s that starts at index from
RunLen(s, from, cs) ==
  LET stops == {i \in from..Len(s) : CharAt(s, i) \notin cs}
  IN  IF stops = {} THEN Len(s) - from + 1
      ELSE (CHOOSE i \in stops : \A j \in stops : i <= j) - from

\* s.startswith(prefix)
startswith(s, prefix) == MatchAt(s, prefix, 1)

\* sub in s
in_str(sub, s) == FindFrom(s, sub, 1) # 0

\* s.replace(old, "")
replace_by_empty(s, old) == Remove(s, old)

\* s.split(sep, 1)[1], for a sep that occurs in s
split_once_tail(s, sep) == SubSeq(s, FindFrom(s, sep, 1) + Len(sep), Len(s))

\* f"{a}{b}{c}"
fstring(a, b, c) == a \o b \o c

----------------------------------------------------------------------------
(* The two regular expressions. *)

\* the group lengths of uuid_pattern: 8-4-4-4-12
UuidGroups == <<8, 4, 4, 4, 12>>

\* the index in a UUID-shaped string at which group g starts
RECURSIVE GroupStart(_)
GroupStart(g) == IF g = 1 THEN 1 ELSE GroupStart(g - 1) + UuidGroups[g - 1] + 1

UuidLen == GroupStart(Len(UuidGroups)) + UuidGroups[Len(UuidGroups)] - 1

\* is_uuid_format: re.match(r'^[0-9a-fA-F]{8}-...-[0-9a-fA-F]{12}$', id_str).
\* Python's $ matches at the end of the string and just before a newline that ends it.
is_uuid_format(id_str) ==
  /\ \/ Len(id_str) = UuidLen
     \/ Len(id_str) = UuidLen + 1 /\ CharAt(id_str, UuidLen + 1) = "\n"
  /\ \A g \in 1..Len(UuidGroups) :
       /\ \A i \in GroupStart(g)..(GroupStart(g) + UuidGroups[g] - 1) : CharAt(id_str, i) \in HexChars
       /\ g < Len(UuidGroups) => CharAt(id_str, GroupStart(g) + UuidGroups[g]) = "-"

\* The end of group(3) of identifier_pattern: "." matches all but "\n".
LineEnd(s, from) == IF FindFrom(s, "\n", from) = 0 THEN Len(s) ELSE FindFrom(s, "\n", from) - 1

\* identifier_pattern matched at the start of s, whose leading run of word
\* characters has length w and whose first "|" after the system is at bar
IdentifierMatchAt(s, w, bar) ==
  LET ok == /\ w >= 1
            /\ MatchAt(s, "?identifier=", w + 1)
            /\ bar > w + Len("?identifier=") + 1
            /\ LineEnd(s, bar + 1) > bar
  IN  [matched |-> ok,
       value   |-> IF ok THEN SubSeq(s, bar + 1, LineEnd(s, bar + 1)) ELSE ""]

\* re.match(r'(\w+)\?identifier=([^|]+)\|(.+)', ref_value): matched, and group(3).
\* \w+ is followed by "?", which is no word character, so it is the whole leading
\* run of word characters; [^|]+ runs to the first "|"; "." matches all but "\n".
IdentifierMatch(ref_value) ==
  IdentifierMatchAt(ref_value, RunLen(ref_value, 1, WordChars), FindFrom(ref_value, "|", RunLen(ref_value, 1, WordChars) + Len("?identifier=") + 1))

----------------------------------------------------------------------------
(* JSON values as json.load returns them. *)

Null == [t |-> "null"]
Bool(b) == [t |-> "bool", v |-> b]
Num(n) == [t |-> "num", v |-> n]
Str(s) == [t |-> "str", v |-> s]
List(q) == [t |-> "list", v |-> q]
Obj(f) == [t |-> "obj", v |-> f]

IsObj(x) == x.t = "obj"
IsList(x) == x.t = "list"
IsStr(x) == x.t = "str"
\* x is None
IsNone(x) == x.t = "null"

\* key in d
Has(d, key) == IsObj(d) /\ key \in DOMAIN d.v

\* d.get(key): None when the key is missing
Get(d, key) == IF key \in DOMAIN d.v THEN d.v[key] ELSE Null

\* d.get(key) == literal, for a str literal
GetIs(d, key, literal) ==
  /\ key \in DOMAIN d.v
  /\ IsStr(d.v[key])
  /\ d.v[key].v = literal

\* Python truth value of a JSON value
Truthy(x) ==
  CASE x.t = "null" -> FALSE
    [] x.t = "bool" -> x.v
    [] x.t = "num"  -> x.v # 0
    [] x.t = "str"  -> x.v # ""
    [] x.t = "list" -> Len(x.v) > 0
    [] x.t = "obj"  -> DOMAIN x.v # {}

\* the function f, as a table of its values: TLC keeps [x \in S |-> e] as the expression e
\* and computes f[x] anew at each use, which multiplies along a recursion
Table(f) == f @@ <<>>

\* the sequence [i \in 1..n |-> e], as a tuple of its values
Tuple(f) == SelectSeq(f, LAMBDA x : TRUE)

\* d[key] = value
Put(f, key, value) == Table([k \in DOMAIN f \cup {key} |-> IF k = key THEN value ELSE f[k]])

\* del d[k] for every k of keys
Del(f, keys) == Table([k \in DOMAIN f \ keys |-> f[k]])

----------------------------------------------------------------------------
(* replace_references, script.py lines 71-245.  parent_key is passed down   *)
(* by the code and never read; it is left out.  The dict is mutated in      *)
(* place by the code; json.load returns a tree without sharing, so the      *)
(* mutation is the construction of the new value.                           *)

\* f"{resource_type}/{id}"
TypeSlashId(resource_type, id) == fstring(resource_type, "/", id)

\* the result of the reference step: the object is marked for removal, or kept with fields f
Removed == [remove |-> TRUE, f |-> <<>>]
Kept(f) == [remove |-> FALSE, f |-> f]

\* lines 112-119 with the removal the other reference forms get: a UUID that is no key
\* of uuid_map marks the object for removal
UrnUuidReferenceOrRemove(f, ref_value, uuid_map) ==
  LET uuid == replace_by_empty(ref_value, "urn:uuid:")
  IN  IF uuid \in DOMAIN uuid_map
      THEN Kept(Put(f, "reference", Str(TypeSlashId(uuid_map[uuid], uuid))))
      ELSE Removed

\* lines 112-119: a reference that starts with urn:uuid:
UrnUuidReference(f, ref_value, uuid_map) ==
  LET uuid == replace_by_empty(ref_value, "urn:uuid:")
  IN  IF uuid \in DOMAIN uuid_map
      THEN Kept(Put(f, "reference", Str(TypeSlashId(uuid_map[uuid], uuid))))
      ELSE Kept(f)

\* lines 121-135 without the return None of line 135: an identifier value that is no
\* key of identifier_map leaves the object as it is
IdentifierReferenceOrKeep(f, ref_value, identifier_map) ==
  LET match == IdentifierMatch(ref_value)
  IN  IF match.matched /\ match.value \in DOMAIN identifier_map
      THEN Kept(Put(f, "reference",
                    Str(TypeSlashId(identifier_map[match.value][1],
                                    identifier_map[match.value][2]))))
      ELSE Kept(f)

\* lines 121-135: a reference that contains ?identifier= and |
IdentifierReference(f, ref_value, identifier_map) ==
  LET match == IdentifierMatch(ref_value)
  IN  IF match.matched
      THEN IF match.value \in DOMAIN identifier_map
           THEN Kept(Put(f, "reference",
                         Str(TypeSlashId(identifier_map[match.value][1],
                                         identifier_map[match.value][2]))))
           ELSE Removed
      ELSE Kept(f)

\* lines 141-160: a reference that contains /
SlashReference(f, ref_value, identifier_map) ==
  LET id_part == split_once_tail(ref_value, "/")
  IN  IF is_uuid_format(id_part) THEN Kept(f)
      ELSE IF id_part \in DOMAIN identifier_map
      THEN Kept(Put(f, "reference",
                    Str(TypeSlashId(identifier_map[id_part][1], identifier_map[id_part][2]))))
      ELSE Removed

\* lines 108-160: the reference step on the dict with fields f
ResolveReference(f, uuid_map, identifier_map) ==
  IF "reference" \in DOMAIN f /\ IsStr(f["reference"])
  THEN LET ref_value == f["reference"].v
       IN  IF startswith(ref_value, "urn:uuid:")
             THEN UrnUuidReference(f, ref_value, uuid_map)
           ELSE IF in_str("?identifier=", ref_value) /\ in_str("|", ref_value)
             THEN IdentifierReference(f, ref_value, identifier_map)
           ELSE IF startswith(ref_value, "#")
             THEN Removed
           ELSE IF in_str("/", ref_value)
             THEN SlashReference(f, ref_value, identifier_map)
           ELSE Kept(f)
  ELSE Kept(f)

\* lines 163-167: provider added to an ExplanationOfBenefit.careTeam object
AddProvider(f, in_eob_care_team, organization_id) ==
  IF in_eob_care_team /\ organization_id # "" /\ "provider" \notin DOMAIN f
  THEN Put(f, "provider", Obj([reference |-> Str(TypeSlashId("Organization", organization_id))]))
  ELSE f

\* line 173 with one key more
valid_keys_and_role == {"reference", "display", "role"}

\* line 173
valid_keys == {"reference", "display"}

\* lines 170-178: CarePlan.careTeam reference objects keep only the valid keys
CleanCarePlanCareTeam(f, in_careplan_care_team) ==
  IF in_careplan_care_team /\ "reference" \in DOMAIN f
  THEN Del(f, {k \in DOMAIN f : k \notin valid_keys})
  ELSE f

\* lines 181-185: who added to a Provenance agent object
AddWho(f, in_provenance_agent, practitioner_id) ==
  IF in_provenance_agent /\ practitioner_id # "" /\ "who" \notin DOMAIN f
  THEN Put(f, "who", Obj([reference |-> Str(TypeSlashId("Practitioner", practitioner_id))]))
  ELSE f

\* lines 196-200 without lines 191-194: period is visited like any other key
SkippedKeysButPeriod(f, is_observation) ==
  {k \in DOMAIN f : is_observation /\ k = "valueCodeableConcept"}

\* lines 191-200: the keys the loop deletes without visiting their values
SkippedKeys(f, is_observation) ==
  {k \in DOMAIN f : k = "period" \/ (is_observation /\ k = "valueCodeableConcept")}

\* lines 203-208: additionalInstruction deleted from the dict items of dosageInstruction
StripAdditionalInstruction(key, value, is_medication_request) ==
  IF is_medication_request /\ key = "dosageInstruction" /\ IsList(value)
  THEN List(Tuple([i \in 1..Len(value.v) |->
                     IF IsObj(value.v[i])
                     THEN Obj(Del(value.v[i].v, {"additionalInstruction"}))
                     ELSE value.v[i]]))
  ELSE value

\* lines 97-245
RECURSIVE replace_references(_, _, _, _, _, _, _, _)
replace_references(obj, uuid_map, identifier_map, organization_id, in_eob_care_team, in_provenance_agent, practitioner_id, in_careplan_care_team) ==
  IF IsObj(obj) THEN
    LET is_observation == GetIs(obj, "resourceType", "Observation")
        is_careplan == GetIs(obj, "resourceType", "CarePlan")
        is_medication_request == GetIs(obj, "resourceType", "MedicationRequest")
        resolved == ResolveReference(obj.v, uuid_map, identifier_map)
    IN  IF resolved.remove THEN Null
        ELSE
          LET f == AddWho(CleanCarePlanCareTeam(AddProvider(resolved.f, in_eob_care_team,
                                                            organization_id),
                                                in_careplan_care_team),
                          in_provenance_agent, practitioner_id)
              \* lines 211-220 read obj as mutated so far; resourceType, if a str, is
              \* replaced by itself, and deletions wait for the end of the loop
              is_eob == GetIs(Obj(f), "resourceType", "ExplanationOfBenefit")
              is_provenance == GetIs(Obj(f), "resourceType", "Provenance")
              visited == DOMAIN f \ SkippedKeys(f, is_observation)
              result == Table([key \in visited |->
                          LET value == StripAdditionalInstruction(key, f[key],
                                                                  is_medication_request)
                          IN  replace_references(value, uuid_map, identifier_map,
                                organization_id,
                                key = "careTeam" /\ IsList(value) /\ is_eob,
                                key = "agent" /\ IsList(value) /\ is_provenance,
                                practitioner_id,
                                key = "careTeam" /\ IsList(value) /\ is_careplan)])
          IN  \* lines 225-232: a key whose result is None is deleted
              Obj(Del(result, {k \in visited : IsNone(result[k])}))
  ELSE IF IsList(obj) THEN
    LET result == Tuple([i \in 1..Len(obj.v) |->
                     replace_references(obj.v[i], uuid_map, identifier_map, organization_id,
                                        in_eob_care_team, in_provenance_agent,
                                        practitioner_id, in_careplan_care_team)])
    IN  \* lines 239-243: an item whose result is None is left out
        List(SelectSeq(result, LAMBDA r : ~IsNone(r)))
  ELSE obj

----------------------------------------------------------------------------
(* Iteration and exceptions.  A function that can raise returns a record    *)
(* with a field raised; a loop stops at the item that raises and keeps what *)
(* it had done.  In the model's documents resourceType, id, fullUrl and an  *)
(* identifier's value are a JSON string, null or missing, as FHIR types     *)
(* them; the other values may have any shape.                               *)

\* "for item in x" raises TypeError: x is None, a bool or a number
NotIterable(x) == x.t \in {"null", "bool", "num"}

\* the items "for item in x" yields when it yields JSON values: those of a list.  A dict
\* yields its keys and a str its characters: strs, none of them a dict.
Items(x) == IF IsList(x) THEN x.v ELSE <<>>

\* "for item in x" yields at least one str (a key of a dict, a character of a str)
YieldsStrs(x) == (IsObj(x) /\ DOMAIN x.v # {}) \/ (IsStr(x) /\ x.v # "")

\* d.get(key, default)
GetOr(d, key, default) == IF key \in DOMAIN d.v THEN d.v[key] ELSE default

\* lines 44-50 (and the same text at lines 401-407): the identifier values of a resource
\* recorded in identifier_map.  A value that is a list or a dict cannot be a key (TypeError).
RECURSIVE RecordIdentifiers(_, _, _, _)
RecordIdentifiers(identifier_map, identifiers, resource_type, resource_id) ==
  IF identifiers = <<>> THEN [raised |-> FALSE, identifier_map |-> identifier_map]
  ELSE LET identifier == Head(identifiers)
           value == IF IsObj(identifier) THEN Get(identifier, "value") ELSE Null
       IN  IF ~Truthy(value)
             THEN RecordIdentifiers(identifier_map, Tail(identifiers), resource_type, resource_id)
           ELSE IF value.t \in {"list", "obj"}
             THEN [raised |-> TRUE, identifier_map |-> identifier_map]
           ELSE IF ~IsStr(value)
             \* a number or a bool becomes a key no str the rewriter looks up is equal to
             THEN RecordIdentifiers(identifier_map, Tail(identifiers), resource_type, resource_id)
           ELSE RecordIdentifiers(Put(identifier_map, value.v, <<resource_type, resource_id>>),
                                  Tail(identifiers), resource_type, resource_id)

\* lines 43-50 and 400-407: "if resource_type and resource_id:" and the loop it guards
ResourceIdentifiers(identifier_map, resource) ==
  LET resource_type == Get(resource, "resourceType")
      resource_id   == Get(resource, "id")
      identifiers   == GetOr(resource, "identifier", List(<<>>))
  IN  IF ~(Truthy(resource_type) /\ Truthy(resource_id))
        THEN [raised |-> FALSE, identifier_map |-> identifier_map]
      ELSE IF NotIterable(identifiers)
        THEN [raised |-> TRUE, identifier_map |-> identifier_map]
      ELSE RecordIdentifiers(identifier_map, Items(identifiers), resource_type.v, resource_id.v)

----------------------------------------------------------------------------
(* build_uuid_to_resource_type_map, script.py lines 13-52 *)

\* lines 30-50: the loop over data["entry"], from the maps built so far
RECURSIVE BuildFromEntries(_, _, _)
BuildFromEntries(entries, uuid_map, identifier_map) ==
  IF entries = <<>>
    THEN [raised |-> FALSE, uuid_map |-> uuid_map, identifier_map |-> identifier_map]
  ELSE
    LET entry  == Head(entries)
        raises == [raised |-> TRUE, uuid_map |-> uuid_map, identifier_map |-> identifier_map]
    IN  IF ~IsObj(entry) THEN raises
        ELSE
          LET full_url == GetOr(entry, "fullUrl", Str(""))
              resource == GetOr(entry, "resource", Obj(<<>>))
          IN  IF ~IsStr(full_url) THEN raises
              ELSE IF ~startswith(full_url.v, "urn:uuid:")
                THEN BuildFromEntries(Tail(entries), uuid_map, identifier_map)
              ELSE IF ~IsObj(resource) THEN raises
              ELSE
                LET uuid == replace_by_empty(full_url.v, "urn:uuid:")
                    resource_type == Get(resource, "resourceType")
                    uuid_map1 == IF Truthy(resource_type)
                                 THEN Put(uuid_map, uuid, resource_type.v)
                                 ELSE uuid_map
                    ids == ResourceIdentifiers(identifier_map, resource)
                IN  IF ids.raised THEN raises
                    ELSE BuildFromEntries(Tail(entries), uuid_map1, ids.identifier_map)

\* line 29 (and lines 259 and 394): data.get("resourceType") == "Bundle" and "entry" in data
IsBundleWithEntry(data) == GetIs(data, "resourceType", "Bundle") /\ "entry" \in DOMAIN data.v

build_uuid_to_resource_type_map(data) ==
  LET empty == [raised |-> FALSE, uuid_map |-> <<>>, identifier_map |-> <<>>]
  IN  IF ~IsObj(data) THEN [empty EXCEPT !.raised = TRUE]
      ELSE IF ~IsBundleWithEntry(data) THEN empty
      ELSE IF NotIterable(data.v["entry"]) \/ YieldsStrs(data.v["entry"])
        THEN [empty EXCEPT !.raised = TRUE]
      ELSE BuildFromEntries(Items(data.v["entry"]), <<>>, <<>>)

----------------------------------------------------------------------------
(* build_global_identifier_map, script.py lines 375-412 *)

\* lines 395-407: the loop over data["entry"]; what it recorded before an entry raised stays
RECURSIVE AggregateEntries(_, _)
AggregateEntries(entries, identifier_map) ==
  IF entries = <<>> THEN identifier_map
  ELSE
    LET entry == Head(entries)
    IN  IF ~IsObj(entry) THEN identifier_map
        ELSE
          LET resource == GetOr(entry, "resource", Obj(<<>>))
          IN  IF ~IsObj(resource) THEN identifier_map
              ELSE LET ids == ResourceIdentifiers(identifier_map, resource)
                   IN  IF ids.raised THEN ids.identifier_map
                       ELSE AggregateEntries(Tail(entries), ids.identifier_map)

\* a file whose text json.load cannot parse (or that cannot be opened)
Malformed == [t |-> "malformed"]

\* lines 390-409: one iteration of the loop over json_files, try and except included
AggregateOne(identifier_map, file) ==
  IF file.t = "malformed" \/ ~IsObj(file) THEN identifier_map
  ELSE IF ~IsBundleWithEntry(file) THEN identifier_map
  ELSE AggregateEntries(Items(file.v["entry"]), identifier_map)

----------------------------------------------------------------------------
(* add_coverage_resources, script.py lines 248-325 *)

\* lines 264-267: the id of the first Patient resource, None if there is none
RECURSIVE FirstPatientId(_)
FirstPatientId(entries) ==
  IF entries = <<>> THEN [raised |-> FALSE, patient_id |-> Null]
  ELSE LET entry == Head(entries)
       IN  IF ~IsObj(entry) \/ ~IsObj(GetOr(entry, "resource", Obj(<<>>)))
             THEN [raised |-> TRUE, patient_id |-> Null]
           ELSE IF GetIs(GetOr(entry, "resource", Obj(<<>>)), "resourceType", "Patient")
             THEN [raised |-> FALSE, patient_id |-> Get(entry.v["resource"], "id")]
           ELSE FirstPatientId(Tail(entries))

\* lines 286-305
coverage_entry(coverage_id, patient_id, organization_id) ==
  Obj([fullUrl  |-> Str(fstring("urn:uuid:", coverage_id, "")),
       resource |-> Obj([resourceType |-> Str("Coverage"),
                         id           |-> Str(coverage_id),
                         status       |-> Str("active"),
                         beneficiary  |-> Obj([reference |-> Str(TypeSlashId("Patient", patient_id))]),
                         payor        |-> List(<<Obj([reference |->
                                            Str(TypeSlashId("Organization", organization_id))])>>)]),
       request  |-> Obj([method |-> Str("POST"), url |-> Str("Coverage")])])

\* lines 311-318
insurance(coverage_id) ==
  List(<<Obj([focal    |-> Bool(TRUE),
              coverage |-> Obj([reference |-> Str(TypeSlashId("Coverage", coverage_id))])])>>)

\* lines 276-322: the loop that rebuilds the entry list; coverage_ids are the values
\* uuid.uuid4() returns, in the order of the calls
RECURSIVE InsertCoverage(_, _, _, _)
InsertCoverage(entries, patient_id, organization_id, coverage_ids) ==
  IF entries = <<>> THEN [raised |-> FALSE, new_entries |-> <<>>]
  ELSE
    LET entry    == Head(entries)
        resource == GetOr(entry, "resource", Obj(<<>>))
    IN  IF ~IsObj(entry) \/ ~IsObj(resource) THEN [raised |-> TRUE, new_entries |-> <<>>]
        ELSE IF GetIs(resource, "resourceType", "ExplanationOfBenefit")
          THEN LET coverage_id == Head(coverage_ids)
                   rest == InsertCoverage(Tail(entries), patient_id, organization_id,
                                          Tail(coverage_ids))
                   linked == Obj(Put(entry.v, "resource",
                                     Obj(Put(resource.v, "insurance", insurance(coverage_id)))))
               IN  [raised |-> rest.raised,
                    new_entries |-> <<coverage_entry(coverage_id, patient_id, organization_id),
                                      linked>> \o rest.new_entries]
        ELSE LET rest == InsertCoverage(Tail(entries), patient_id, organization_id, coverage_ids)
             IN  [raised |-> rest.raised, new_entries |-> <<entry>> \o rest.new_entries]

\* add_coverage_resources, were it to leave alone a Bundle that has a Coverage entry
add_coverage_resources_once(data, organization_id, coverage_ids) ==
  IF ~IsObj(data) THEN [raised |-> TRUE, data |-> data]
  ELSE IF ~IsBundleWithEntry(data) THEN [raised |-> FALSE, data |-> data]
  ELSE IF NotIterable(data.v["entry"]) \/ YieldsStrs(data.v["entry"])
    THEN [raised |-> TRUE, data |-> data]
  ELSE
    LET first == FirstPatientId(Items(data.v["entry"]))
        entries == Items(data.v["entry"])
    IN  IF first.raised THEN [raised |-> TRUE, data |-> data]
        ELSE IF ~Truthy(first.patient_id) THEN [raised |-> FALSE, data |-> data]
        ELSE IF \E k \in 1..Len(entries) :
                  /\ IsObj(entries[k]) /\ IsObj(GetOr(entries[k], "resource", Obj(<<>>)))
                  /\ GetIs(GetOr(entries[k], "resource", Obj(<<>>)), "resourceType", "Coverage")
          THEN [raised |-> FALSE, data |-> data]
        ELSE LET new == InsertCoverage(entries, first.patient_id.v,
                                       organization_id, coverage_ids)
             IN  [raised |-> new.raised,
                  data   |-> Obj(Put(data.v, "entry", List(new.new_entries)))]

add_coverage_resources(data, organization_id, coverage_ids) ==
  IF ~IsObj(data) THEN [raised |-> TRUE, data |-> data]
  ELSE IF ~IsBundleWithEntry(data) THEN [raised |-> FALSE, data |-> data]
  ELSE IF NotIterable(data.v["entry"]) \/ YieldsStrs(data.v["entry"])
    THEN [raised |-> TRUE, data |-> data]
  ELSE
    LET first == FirstPatientId(Items(data.v["entry"]))
    IN  IF first.raised THEN [raised |-> TRUE, data |-> data]
        ELSE IF ~Truthy(first.patient_id) THEN [raised |-> FALSE, data |-> data]
        ELSE LET new == InsertCoverage(Items(data.v["entry"]), first.patient_id.v,
                                       organization_id, coverage_ids)
             IN  [raised |-> new.raised,
                  data   |-> Obj(Put(data.v, "entry", List(new.new_entries)))]

\* the number of times add_coverage_resources calls uuid.uuid4() on data: once for each
\* ExplanationOfBenefit entry it reaches
RECURSIVE CountEob(_)
CountEob(entries) ==
  IF entries = <<>> THEN 0
  ELSE (IF IsObj(Head(entries)) /\ IsObj(GetOr(Head(entries), "resource", Obj(<<>>)))
           /\ GetIs(GetOr(Head(entries), "resource", Obj(<<>>)), "resourceType",
                    "ExplanationOfBenefit")
        THEN 1 ELSE 0) + CountEob(Tail(entries))

Uuid4Calls(data) ==
  IF IsObj(data) /\ IsBundleWithEntry(data) THEN CountEob(Items(data.v["entry"])) ELSE 0

----------------------------------------------------------------------------
(* process_json_file, script.py lines 328-372 *)

\* lines 351-355: {**global_identifier_map, **local_identifier_map}, or the local map
\* alone when the global map is empty or None
MergedIdentifierMap(global_map, local_identifier_map) ==
  IF DOMAIN global_map # {}
  THEN Table([k \in DOMAIN global_map \cup DOMAIN local_identifier_map |->
          IF k \in DOMAIN local_identifier_map THEN local_identifier_map[k] ELSE global_map[k]])
  ELSE local_identifier_map

\* lines 340-372: whether the file is written back, and its content after the call; an
\* exception leaves the file as it was
process_json_file(file, global_map, organization_id, practitioner_id, coverage_ids) ==
  IF file.t = "malformed" THEN [written |-> FALSE, data |-> file]
  ELSE
    LET maps == build_uuid_to_resource_type_map(file)
    IN  IF maps.raised THEN [written |-> FALSE, data |-> file]
        ELSE
          LET identifier_map == MergedIdentifierMap(global_map, maps.identifier_map)
              added == add_coverage_resources(file, organization_id, coverage_ids)
          IN  IF added.raised THEN [written |-> FALSE, data |-> file]
              ELSE [written |-> TRUE,
                    data |-> replace_references(added.data, maps.uuid_map, identifier_map,
                                                organization_id, FALSE, FALSE,
                                                practitioner_id, FALSE)]

----------------------------------------------------------------------------
(* create_organization_file and main, script.py lines 415-502 *)

\* lines 431-460
organization_bundle(organization_id) ==
  Obj([resourceType |-> Str("Bundle"),
       type  |-> Str("batch"),
       entry |-> List(<<Obj([
         fullUrl  |-> Str(fstring("urn:uuid:", organization_id, "")),
         resource |-> Obj([resourceType |-> Str("Organization"),
                           id     |-> Str(organization_id),
                           active |-> Bool(TRUE),
                           type   |-> List(<<Obj([coding |-> List(<<Obj([
                                        system  |-> Str("http://terminology.hl7.org/CodeSystem/organization-type"),
                                        code    |-> Str("prov"),
                                        display |-> Str("Healthcare Provider")])>>)])>>),
                           name   |-> Str("Healthcare Organization")]),
         request  |-> Obj([method |-> Str("POST"), url |-> Str("Organization")])])>>)])

\* lines 423-466: the directory after create_organization_file
create_organization_file(dir, organization_id) ==
  IF \E i \in 1..Len(dir) : dir[i].name = "organizationInformation.json"
  THEN dir
  ELSE Append(dir, [name |-> "organizationInformation.json",
                    data |-> organization_bundle(organization_id)])

\* lines 477-480: the files the glob finds, in the order of the directory listing
Glob(dir) == SelectSeq([i \in 1..Len(dir) |-> i],
                       LAMBDA i : dir[i].name # "convert_references.json")

----------------------------------------------------------------------------
(* The documents of the model. *)

MaxRuns == 2
MaxPasses == 2
MaxFiles == 2

DefaultOrganizationId == "2befa435-3070-3350-a15c-e43ac1e84b24"
DefaultPractitionerId == "a8cd062d-7100-36d2-96c0-a6a3903991ad"

PatientUuid == "6c0b7f20-5c92-efd9-779b-c9ac40656b44"
OrgUuidA == "0a1b2c3d-0000-4000-8000-00000000000a"
OrgUuidB == "0a1b2c3d-0000-4000-8000-00000000000b"
EobUuid == "e0b00000-0000-4000-8000-000000000001"
UnknownUuid == "ffffffff-0000-4000-8000-000000000000"

\* the values uuid.uuid4() may return
Uuid4Values == {"c0000000-0000-4000-8000-000000000001", "c0000000-0000-4000-8000-000000000002"}

Period == Obj([start |-> Str("2020-01-01")])

PatientEntry(id) ==
  Obj([fullUrl  |-> Str(fstring("urn:uuid:", PatientUuid, "")),
       resource |-> Obj([resourceType |-> Str("Patient"), id |-> Str(id)])])

\* a Patient resource that has no id
PatientWithoutIdEntry ==
  Obj([fullUrl  |-> Str(""),
       resource |-> Obj([resourceType |-> Str("Patient")])])

\* an Organization that carries the identifier value ORG-42
OrganizationEntry(full_url, id) ==
  Obj([fullUrl  |-> Str(full_url),
       resource |-> Obj([resourceType |-> Str("Organization"),
                         id           |-> Str(id),
                         identifier   |-> List(<<Obj([system |-> Str("http://x"),
                                                      value  |-> Str("ORG-42")])>>)])])

EobEntry ==
  Obj([fullUrl  |-> Str(fstring("urn:uuid:", EobUuid, "")),
       resource |-> Obj([resourceType |-> Str("ExplanationOfBenefit"),
                         id       |-> Str(EobUuid),
                         patient  |-> Obj([reference |-> Str(fstring("urn:uuid:", PatientUuid, ""))]),
                         provider |-> Obj([reference |-> Str("Organization?identifier=http://x|ORG-42")]),
                         careTeam |-> List(<<Obj([sequence |-> Num(1), period |-> Period])>>)])])

MedicationRequestEntry ==
  Obj([fullUrl  |-> Str(""),
       resource |-> Obj([resourceType |-> Str("MedicationRequest"),
                         id        |-> Str("M1"),
                         requester |-> Obj([reference |-> Str(fstring("urn:uuid:", UnknownUuid, "")),
                                            period    |-> Period]),
                         dosageInstruction |-> List(<<Obj([
                            additionalInstruction |-> List(<<Obj([text |-> Str("t")])>>),
                            timing |-> Obj([repeat |-> Obj([frequency |-> Num(1),
                                                            period    |-> Num(1)])])])>>)])])

Bundle(entries) == Obj([resourceType |-> Str("Bundle"), entry |-> List(entries)])

Documents ==
  { Bundle(<<PatientEntry(PatientUuid), EobEntry>>),
    Bundle(<<PatientEntry("P1"), EobEntry>>),
    Bundle(<<PatientEntry(PatientUuid), EobEntry, EobEntry>>),
    Bundle(<<OrganizationEntry(fstring("urn:uuid:", OrgUuidA, ""), OrgUuidA), EobEntry>>),
    Bundle(<<OrganizationEntry(fstring("urn:uuid:", OrgUuidB, ""), OrgUuidB)>>),
    Bundle(<<OrganizationEntry(TypeSlashId("Organization", OrgUuidB), OrgUuidB), EobEntry>>),
    Bundle(<<MedicationRequestEntry>>),
    \* two Patient resources, the first without an id
    Bundle(<<PatientWithoutIdEntry, PatientEntry(PatientUuid), EobEntry>>),
    \* unexpected shapes: an entry that is no object, a root that is no object
    Bundle(<<OrganizationEntry(fstring("urn:uuid:", OrgUuidA, ""), OrgUuidA), Str("entry")>>),
    Bundle(<<PatientEntry(PatientUuid), EobEntry, Str("entry")>>),
    List(<<>>),
    \* a resource that is no Bundle
    Obj([resourceType |-> Str("Patient"), id |-> Str(PatientUuid), period |-> Period]),
    Malformed }

FileNames == <<"a.json", "b.json", "c.json">>

\* the directories main may find: up to MaxFiles files
Directories ==
  UNION { { [i \in 1..n |-> [name |-> FileNames[i], data |-> d[i]]] : d \in [1..n -> Documents] }
          : n \in 0..MaxFiles }

----------------------------------------------------------------------------
(* The batch: main() run on a directory, one loop iteration at a time. *)

NoEnv == [uuid_map |-> <<>>, identifier_map |-> <<>>, organization_id |-> "", practitioner_id |-> ""]

Init ==
  /\ files \in Directories
  /\ pc = "start"
  /\ idx = 0
  /\ run = 0
  /\ json_files = <<>>
  /\ global_identifier_map = <<>>
  /\ updated = {}
  /\ tree = Null /\ out = Null /\ env = NoEnv /\ passes = 0

\* lines 472-493: the glob, "No JSON files found", create_organization_file, and the
\* start of build_global_identifier_map.  A run starts on the directory an earlier
\* run left.
MainStart ==
  /\ pc \in {"start", "done"}
  /\ run < MaxRuns
  /\ run' = run + 1
  /\ json_files' = Glob(files)
  /\ updated' = {}
  /\ global_identifier_map' = <<>>
  /\ IF Glob(files) = <<>>
     THEN pc' = "done" /\ idx' = 0 /\ files' = files
     ELSE /\ files' = create_organization_file(files, DefaultOrganizationId)
          /\ pc' = "aggregate"
          /\ idx' = 1
  /\ UNCHANGED <<tree, out, env, passes>>

\* lines 389-409: one iteration of build_global_identifier_map's loop
Aggregate ==
  /\ pc = "aggregate"
  /\ global_identifier_map' = AggregateOne(global_identifier_map, files[json_files[idx]].data)
  /\ IF idx = Len(json_files)
     THEN pc' = "process" /\ idx' = 1
     ELSE pc' = pc /\ idx' = idx + 1
  /\ UNCHANGED <<files, run, json_files, updated, tree, out, env, passes>>

\* lines 498-499: one iteration of main's loop, a call of process_json_file
Process ==
  /\ pc = "process"
  /\ \E coverage_ids \in [1..Uuid4Calls(files[json_files[idx]].data) -> Uuid4Values] :
       LET file == files[json_files[idx]]
           done == process_json_file(file.data, global_identifier_map, DefaultOrganizationId,
                                     DefaultPractitionerId, coverage_ids)
       IN  /\ files' = [files EXCEPT ![json_files[idx]].data = done.data]
           /\ updated' = IF done.written THEN updated \cup {file.name} ELSE updated
  /\ IF idx = Len(json_files)
     THEN pc' = "done" /\ idx' = 0
     ELSE pc' = pc /\ idx' = idx + 1
  /\ UNCHANGED <<run, json_files, global_identifier_map, tree, out, env, passes>>

Next == MainStart \/ Aggregate \/ Process

Spec == Init /\ [][Next]_vars


----------------------------------------------------------------------------
(* replace_references called alone: on a resource, with maps and ids the    *)
(* caller chooses, and then again on its own result with the same maps.     *)

\* what the callers may pass: the maps of a document and the two ids
Envs ==
  LET uuid_map == (PatientUuid :> "Patient")
      identifier_map == ("ORG-42" :> <<"Organization", "org-uuid-9">>) @@
                        ("P1" :> <<"Patient", PatientUuid>>)
  IN  { [uuid_map |-> uuid_map, identifier_map |-> identifier_map,
         organization_id |-> DefaultOrganizationId, practitioner_id |-> DefaultPractitionerId],
        [uuid_map |-> <<>>, identifier_map |-> <<>>,
         organization_id |-> DefaultOrganizationId, practitioner_id |-> DefaultPractitionerId],
        [uuid_map |-> uuid_map, identifier_map |-> identifier_map,
         organization_id |-> "org1", practitioner_id |-> "prac1"],
        [uuid_map |-> <<>>, identifier_map |-> ("ORG-42" :> <<"Organization", OrgUuidA>>),
         organization_id |-> "", practitioner_id |-> ""] }

\* the reference strings of the model's resources
RefStrings ==
  { fstring("urn:uuid:", PatientUuid, ""),
    fstring("urn:uuid:", UnknownUuid, ""),
    "Organization?identifier=http://x|ORG-42",
    "?identifier=http://x|ORG-42",
    "#contained-1",
    TypeSlashId("Patient", PatientUuid),
    "Patient/P1",
    "Organization/ORG-42",
    "P1" }

\* an object that carries a reference, alone and with other fields
ReferenceObjects ==
  { Obj([reference |-> Str(r)]) : r \in RefStrings } \cup
  { Obj([reference |-> Str(r), display |-> Str("d"), role |-> Str("r"), period |-> Period])
      : r \in RefStrings } \cup
  { Obj([reference  |-> Str(r),
         identifier |-> Obj([assigner |-> Obj([reference |->
                           Str(TypeSlashId("Organization", OrgUuidA))])])])
      : r \in {"Organization/ORG-42", fstring("urn:uuid:", UnknownUuid, "")} }

\* what a list of a resource may hold
Elements ==
  ReferenceObjects \cup
  { Obj([role |-> Str("r"), period |-> Period]),
    Obj([sequence |-> Num(1),
         provider |-> Obj([reference |-> Str(TypeSlashId("Organization", OrgUuidA))])]),
    Obj([reference |-> Num(1), role |-> Str("r")]),
    Null,
    Str("text") }

\* the second element of a list of two
SecondElements ==
  { Null,
    Obj([reference |-> Str("#contained-1")]),
    Obj([reference |-> Str(TypeSlashId("Patient", PatientUuid))]) }

ElementLists == { <<e>> : e \in Elements } \cup { <<e, s>> : e \in Elements, s \in SecondElements }

\* the resource types and list fields the rewriter's flags are about, and one they are not
ListFields ==
  { <<"CarePlan", "careTeam">>, <<"ExplanationOfBenefit", "careTeam">>,
    <<"Provenance", "agent">>, <<"Encounter", "participant">> }

\* a resource with a list field, the first element of the list also as a field of its
\* own, and a null field
Resource(kind, elements) ==
  Obj((kind[2] :> List(elements)) @@
      [resourceType |-> Str(kind[1]), subject |-> Head(elements), note |-> Null])

Resources ==
  { Resource(kind, elements) : kind \in ListFields, elements \in ElementLists } \cup
  { Obj([resourceType |-> Str("Observation"),
         valueCodeableConcept |-> Obj([text |-> Str("t")]),
         subject |-> e]) : e \in ReferenceObjects } \cup
  { MedicationRequestEntry.v["resource"] }

RewriteInit ==
  /\ tree \in Resources
  /\ env \in Envs
  /\ out = Null
  /\ passes = 0
  /\ files = <<>> /\ pc = "rewrite" /\ idx = 0 /\ run = 0 /\ json_files = <<>>
  /\ global_identifier_map = <<>> /\ updated = {}

\* one call of replace_references, as process_json_file makes it (line 361): on the
\* resource, and after that on the result of the call before
Rewrite ==
  /\ pc = "rewrite"
  /\ passes < MaxPasses
  /\ tree' = IF passes = 0 THEN tree ELSE out
  /\ out' = replace_references(IF passes = 0 THEN tree ELSE out, env.uuid_map,
                               env.identifier_map, env.organization_id, FALSE, FALSE,
                               env.practitioner_id, FALSE)
  /\ passes' = passes + 1
  /\ UNCHANGED <<env, files, pc, idx, run, json_files, global_identifier_map, updated>>

RewriteSpec == RewriteInit /\ [][Rewrite]_vars


----------------------------------------------------------------------------
(* What the properties speak of. *)

\* x is an object with a reference string, and the string
HasRef(x) == IsObj(x) /\ "reference" \in DOMAIN x.v /\ IsStr(x.v["reference"])
Ref(x) == x.v["reference"].v

\* s has the form of a UUID: 8-4-4-4-12 hexadecimal digits
UuidShaped(s) ==
  /\ Len(s) = 36
  /\ \A i \in 1..36 : IF i \in {9, 14, 19, 24} THEN CharAt(s, i) = "-"
                                              ELSE CharAt(s, i) \in HexChars

\* the text of s after the first occurrence of sep
After(s, sep) == SubSeq(s, FindFrom(s, sep, 1) + Len(sep), Len(s))

\* r is a reference in canonical form, ResourceType/<uuid>
Canonical(r) ==
  /\ in_str("/", r)
  /\ RunLen(r, 1, WordChars) = FindFrom(r, "/", 1) - 1
  /\ FindFrom(r, "/", 1) > 1
  /\ UuidShaped(After(r, "/"))

\* a call of replace_references has been made on a resource, whose list field is key
Rewritten(key) ==
  /\ pc = "rewrite"
  /\ passes >= 1
  /\ IsObj(tree) /\ IsObj(out)
  /\ key \in DOMAIN tree.v /\ IsList(tree.v[key])
  /\ key \in DOMAIN out.v /\ IsList(out.v[key])

\* the number of null items of a list
NullItems(q) == Cardinality({i \in 1..Len(q) : IsNone(q[i])})

(* C1: the rewriter returns every null node unchanged: a field of the      *)
(* resource whose value is null is still there, null, in the result, and a *)
(* list of the resource has as many null items in the result as before.    *)
NullsKept ==
  (pc = "rewrite" /\ passes >= 1 /\ IsObj(tree)) =>
    /\ IsObj(out)
    /\ \A k \in DOMAIN tree.v :
         /\ IsNone(tree.v[k]) => k \in DOMAIN out.v /\ IsNone(out.v[k])
         /\ IsList(tree.v[k]) =>
              /\ k \in DOMAIN out.v
              /\ IsList(out.v[k])
              /\ NullItems(out.v[k].v) = NullItems(tree.v[k].v)


\* the resource handed to the call has resourceType type
IsA(type) == GetIs(tree, "resourceType", type)

(* C3: after the rewriter has run, every object that is an element of a    *)
(* careTeam list directly under a CarePlan resource has a field set that   *)
(* is a subset of {reference, display}, whether or not it had a reference  *)
(* field.                                                                  *)
CarePlanCareTeamClean ==
  (Rewritten("careTeam") /\ IsA("CarePlan")) =>
    \A i \in 1..Len(out.v["careTeam"].v) :
      IsObj(out.v["careTeam"].v[i]) =>
        DOMAIN out.v["careTeam"].v[i].v \subseteq {"reference", "display"}

(* C3, amended: after the rewriter has run, every object that is an        *)
(* element of a careTeam list directly under a CarePlan resource and has a *)
(* reference field has a field set that is a subset of {reference,         *)
(* display}.                                                               *)
CarePlanCareTeamReferencesClean ==
  (Rewritten("careTeam") /\ IsA("CarePlan")) =>
    \A i \in 1..Len(out.v["careTeam"].v) :
      (IsObj(out.v["careTeam"].v[i]) /\ "reference" \in DOMAIN out.v["careTeam"].v[i].v) =>
        DOMAIN out.v["careTeam"].v[i].v \subseteq {"reference", "display"}

\* a careTeam element of a CarePlan with a reference, a display and other fields has
\* come out with its reference and display alone
CarePlanCareTeamCleaned ==
  /\ Rewritten("careTeam") /\ IsA("CarePlan")
  /\ passes = 1
  /\ IsObj(tree.v["careTeam"].v[1])
  /\ {"reference", "display", "role"} \subseteq DOMAIN tree.v["careTeam"].v[1].v
  /\ Len(out.v["careTeam"].v) >= 1
  /\ IsObj(out.v["careTeam"].v[1])
  /\ DOMAIN out.v["careTeam"].v[1].v = {"reference", "display"}

(* C4: for a known (non-empty) organization id, every object that survives *)
(* as an element of a careTeam list directly under an ExplanationOfBenefit *)
(* and had no provider field in the input has, in the result,              *)
(* provider.reference equal to Organization/<organization id>.  Stated for *)
(* the lists none of whose objects has a provider in the input: then every *)
(* object of the list in the result is one of them.                        *)
ProviderInjected ==
  ( /\ Rewritten("careTeam") /\ IsA("ExplanationOfBenefit")
    /\ env.organization_id # ""
    /\ \A i \in 1..Len(tree.v["careTeam"].v) :
         IsObj(tree.v["careTeam"].v[i]) => "provider" \notin DOMAIN tree.v["careTeam"].v[i].v ) =>
    \A j \in 1..Len(out.v["careTeam"].v) :
      IsObj(out.v["careTeam"].v[j]) =>
        /\ "provider" \in DOMAIN out.v["careTeam"].v[j].v
        /\ HasRef(out.v["careTeam"].v[j].v["provider"])
        /\ Ref(out.v["careTeam"].v[j].v["provider"]) = "Organization/" \o env.organization_id


\* r is identifier-based: it contains ?identifier= and |
IdentifierBased(r) == in_str("?identifier=", r) /\ in_str("|", r)

\* r matches <type>?identifier=<system>|<value>
IdentifierForm(r) == IdentifierMatch(r).matched

\* r is a bare-ID reference: Type/id with an id that is no UUID
BareId(r) ==
  /\ ~IdentifierBased(r)
  /\ ~startswith(r, "urn:uuid:")
  /\ ~startswith(r, "#")
  /\ in_str("/", r)
  /\ ~UuidShaped(After(r, "/"))

\* the value of an identifier-based reference, the id of a bare-ID reference
KeyOf(r) == IF IdentifierBased(r) THEN After(r, "|") ELSE After(r, "/")

\* <mappedType>/<mappedId> for a reference whose value or id is a key of the identifier map
MappedRef(r) == env.identifier_map[KeyOf(r)][1] \o "/" \o env.identifier_map[KeyOf(r)][2]

\* r is bare-ID, or identifier-based: by the form, or by what it contains
Covers(form, r) == BareId(r) \/ (IF form THEN IdentifierForm(r) ELSE IdentifierBased(r))

\* the object that is the field key of the resource, if its reference is one that Covers
\* is true of: rewritten in the result when mapped, and the field deleted when not
FieldResolved(form, key) ==
  (key \in DOMAIN tree.v /\ HasRef(tree.v[key]) /\ Covers(form, Ref(tree.v[key]))) =>
    IF KeyOf(Ref(tree.v[key])) \in DOMAIN env.identifier_map
    THEN /\ key \in DOMAIN out.v
         /\ HasRef(out.v[key])
         /\ Ref(out.v[key]) = MappedRef(Ref(tree.v[key]))
    ELSE key \notin DOMAIN out.v

\* the same for the first item of the list field key: rewritten and still the first item
\* when mapped, and when not, no item of the result has its reference
FirstItemResolved(form, key) ==
  (Len(tree.v[key].v) >= 1 /\ HasRef(tree.v[key].v[1]) /\ Covers(form, Ref(tree.v[key].v[1]))) =>
    IF KeyOf(Ref(tree.v[key].v[1])) \in DOMAIN env.identifier_map
    THEN /\ Len(out.v[key].v) >= 1
         /\ HasRef(out.v[key].v[1])
         /\ Ref(out.v[key].v[1]) = MappedRef(Ref(tree.v[key].v[1]))
    ELSE \A j \in 1..Len(out.v[key].v) :
           ~(HasRef(out.v[key].v[j]) /\ Ref(out.v[key].v[j]) = Ref(tree.v[key].v[1]))

\* a call has been made on a resource and returned one
RewrittenResource == pc = "rewrite" /\ passes >= 1 /\ IsObj(tree) /\ IsObj(out)

(* C7: every object whose reference is identifier-based (contains          *)
(* ?identifier= and |) or bare-ID (Type/id with a non-UUID id) is rewritten *)
(* to <mappedType>/<mappedId> when its value or id is a key of the          *)
(* identifier map, and otherwise removed from its container: its field      *)
(* deleted in an object, its element dropped from a list.                   *)
IdentifierBasedResolvedOrRemoved ==
  /\ RewrittenResource => FieldResolved(FALSE, "subject")
  /\ \A key \in {"careTeam", "agent", "participant"} :
       Rewritten(key) => FirstItemResolved(FALSE, key)

\* the object that is the field key, or the first item of the list field key, of the
\* resource, if its reference is identifier-based without the identifier form: the
\* result has it with the same reference
FieldUntouched(key) ==
  ( /\ key \in DOMAIN tree.v /\ HasRef(tree.v[key])
    /\ IdentifierBased(Ref(tree.v[key])) /\ ~IdentifierForm(Ref(tree.v[key]))
    /\ ~startswith(Ref(tree.v[key]), "urn:uuid:") ) =>
    key \in DOMAIN out.v /\ HasRef(out.v[key]) /\ Ref(out.v[key]) = Ref(tree.v[key])

FirstItemUntouched(key) ==
  ( /\ Len(tree.v[key].v) >= 1 /\ HasRef(tree.v[key].v[1])
    /\ IdentifierBased(Ref(tree.v[key].v[1])) /\ ~IdentifierForm(Ref(tree.v[key].v[1]))
    /\ ~startswith(Ref(tree.v[key].v[1]), "urn:uuid:") ) =>
    /\ Len(out.v[key].v) >= 1
    /\ HasRef(out.v[key].v[1])
    /\ Ref(out.v[key].v[1]) = Ref(tree.v[key].v[1])

(* C7, amended: every object whose reference matches                       *)
(* <type>?identifier=<system>|<value> or is bare-ID is rewritten to        *)
(* <mappedType>/<mappedId> when its value or id is a key of the identifier *)
(* map, and otherwise removed from its container; an object whose          *)
(* reference contains ?identifier= and | without matching that form is     *)
(* kept, its reference untouched.                                          *)
IdentifierFormResolvedOrRemoved ==
  /\ RewrittenResource =>
       FieldResolved(TRUE, "subject") /\ FieldUntouched("subject")
  /\ \A key \in {"careTeam", "agent", "participant"} :
       Rewritten(key) =>
         FirstItemResolved(TRUE, key) /\ FirstItemUntouched(key)

\* Organization?identifier=http://x|ORG-42 has become Organization/org-uuid-9, ORG-42
\* mapped to (Organization, org-uuid-9)
IdentifierReferenceRewritten ==
  /\ RewrittenResource
  /\ passes = 1
  /\ "subject" \in DOMAIN tree.v /\ HasRef(tree.v["subject"])
  /\ Ref(tree.v["subject"]) = "Organization?identifier=http://x|ORG-42"
  /\ "ORG-42" \in DOMAIN env.identifier_map
  /\ env.identifier_map["ORG-42"] = <<"Organization", "org-uuid-9">>
  /\ "subject" \in DOMAIN out.v /\ HasRef(out.v["subject"])
  /\ Ref(out.v["subject"]) = "Organization/org-uuid-9"

\* the reference a urn:uuid: reference r is to become: <type>/<uuid> when the UUID after
\* the prefix is a key of the UUID map, and r when it is not
UrnTarget(r) ==
  IF After(r, "urn:uuid:") \in DOMAIN env.uuid_map
  THEN env.uuid_map[After(r, "urn:uuid:")] \o "/" \o After(r, "urn:uuid:")
  ELSE r

(* C8: an object whose reference starts with urn:uuid: is never removed:   *)
(* it stays in its container, as a field of the resource or as the item of *)
(* a list, and its reference is <type>/<uuid> if the UUID after the prefix *)
(* is a key of the UUID map and exactly as it was if it is not.            *)
UrnUuidNeverRemoved ==
  /\ ( /\ RewrittenResource
       /\ "subject" \in DOMAIN tree.v /\ HasRef(tree.v["subject"])
       /\ startswith(Ref(tree.v["subject"]), "urn:uuid:") ) =>
       /\ "subject" \in DOMAIN out.v
       /\ HasRef(out.v["subject"])
       /\ Ref(out.v["subject"]) = UrnTarget(Ref(tree.v["subject"]))
  /\ \A key \in {"careTeam", "agent", "participant"} :
       ( /\ Rewritten(key)
         /\ Len(tree.v[key].v) >= 1 /\ HasRef(tree.v[key].v[1])
         /\ startswith(Ref(tree.v[key].v[1]), "urn:uuid:") ) =>
         /\ Len(out.v[key].v) >= 1
         /\ HasRef(out.v[key].v[1])
         /\ Ref(out.v[key].v[1]) = UrnTarget(Ref(tree.v[key].v[1]))

\* urn:uuid:6c0b7f20-5c92-efd9-779b-c9ac40656b44, mapped to Patient, has become
\* Patient/6c0b7f20-5c92-efd9-779b-c9ac40656b44, as the item of a list
UrnUuidRewritten ==
  /\ Rewritten("participant")
  /\ passes = 1
  /\ HasRef(tree.v["participant"].v[1])
  /\ Ref(tree.v["participant"].v[1]) = "urn:uuid:6c0b7f20-5c92-efd9-779b-c9ac40656b44"
  /\ "6c0b7f20-5c92-efd9-779b-c9ac40656b44" \in DOMAIN env.uuid_map
  /\ env.uuid_map["6c0b7f20-5c92-efd9-779b-c9ac40656b44"] = "Patient"
  /\ Ref(out.v["participant"].v[1]) = "Patient/6c0b7f20-5c92-efd9-779b-c9ac40656b44"

\* urn:uuid:<UUID>, the UUID no key of the UUID map, has stayed where and as it was
UrnUuidLeft ==
  /\ RewrittenResource
  /\ passes = 1
  /\ "subject" \in DOMAIN tree.v /\ HasRef(tree.v["subject"])
  /\ startswith(Ref(tree.v["subject"]), "urn:uuid:")
  /\ After(Ref(tree.v["subject"]), "urn:uuid:") \notin DOMAIN env.uuid_map
  /\ "subject" \in DOMAIN out.v
  /\ Ref(out.v["subject"]) = Ref(tree.v["subject"])


----------------------------------------------------------------------------
(* The documents process_json_file has written back. *)

\* the value at a path of field names under x, null if the path leaves x
RECURSIVE Sub(_, _)
Sub(x, path) ==
  IF path = <<>> THEN x
  ELSE IF IsObj(x) /\ Head(path) \in DOMAIN x.v THEN Sub(x.v[Head(path)], Tail(path))
  ELSE Null

\* item i of the list x, null if there is none
Item(x, i) == IF IsList(x) /\ i \in 1..Len(x.v) THEN x.v[i] ELSE Null

\* x is the string s
StrIs(x, s) == IsStr(x) /\ x.v = s

\* the entries of a Bundle
Entries(data) ==
  IF IsObj(data) /\ IsBundleWithEntry(data) /\ IsList(data.v["entry"])
  THEN data.v["entry"].v
  ELSE <<>>

\* the resource of the entry has resourceType type
IsResource(entry, type) == StrIs(Sub(entry, <<"resource", "resourceType">>), type)

\* the id of the resource of the entry, "" if it has none
IdOf(entry) ==
  IF IsStr(Sub(entry, <<"resource", "id">>)) THEN Sub(entry, <<"resource", "id">>).v ELSE ""

\* the files the running main has written back
Written == {i \in DOMAIN files : files[i].name \in updated}

(* C2: for every Bundle that contains a Patient with a non-empty id p and  *)
(* ExplanationOfBenefit entries, the document process writes has,          *)
(* immediately before each ExplanationOfBenefit entry, a Coverage entry    *)
(* whose beneficiary.reference is Patient/p, and that                      *)
(* ExplanationOfBenefit's insurance[0].coverage.reference is               *)
(* Coverage/<id of that Coverage>.                                         *)
CoverageBeforeEveryEob ==
  \A i \in Written :
    \A p \in 1..Len(Entries(files[i].data)), j \in 1..Len(Entries(files[i].data)) :
      ( /\ IsResource(Entries(files[i].data)[p], "Patient")
        /\ IdOf(Entries(files[i].data)[p]) # ""
        /\ IsResource(Entries(files[i].data)[j], "ExplanationOfBenefit") ) =>
        /\ j > 1
        /\ IsResource(Entries(files[i].data)[j - 1], "Coverage")
        /\ StrIs(Sub(Entries(files[i].data)[j - 1], <<"resource", "beneficiary", "reference">>),
                 "Patient/" \o IdOf(Entries(files[i].data)[p]))
        /\ IdOf(Entries(files[i].data)[j - 1]) # ""
        /\ StrIs(Sub(Item(Sub(Entries(files[i].data)[j], <<"resource", "insurance">>), 1),
                     <<"coverage", "reference">>),
                 "Coverage/" \o IdOf(Entries(files[i].data)[j - 1]))

(* C5: for a single Bundle, the local identifier map                       *)
(* build_uuid_to_resource_type_map returns equals the map                  *)
(* build_global_identifier_map extracts from that Bundle: the global map   *)
(* main has built from a directory of one file is the local map of that    *)
(* file.                                                                   *)
LocalMapIsGlobalMapOfOneFile ==
  ( /\ pc = "process" /\ idx = 1 /\ Len(json_files) = 1
    /\ Entries(files[json_files[1]].data) # <<>>
    /\ ~build_uuid_to_resource_type_map(files[json_files[1]].data).raised ) =>
    build_uuid_to_resource_type_map(files[json_files[1]].data).identifier_map
      = global_identifier_map

\* the entry carries the identifier value
Carries(entry, value) ==
  \E m \in 1..Len(Items(Sub(entry, <<"resource", "identifier">>))) :
    StrIs(Sub(Item(Sub(entry, <<"resource", "identifier">>), m), <<"value">>), value)

(* C6: an identifier value carried by a resource of the document being     *)
(* processed and also by a resource of another document of the batch       *)
(* resolves to the resource of the document being processed, wherever the  *)
(* other document falls in file order.  The ExplanationOfBenefit of the    *)
(* model's documents refers to its provider by the identifier value        *)
(* ORG-42: in a written document that has an Organization with that value, *)
(* the provider reference is to that Organization.                         *)
LocalIdentifierWins ==
  \A i \in Written, o \in DOMAIN files :
    \A j \in 1..Len(Entries(files[i].data)), k \in 1..Len(Entries(files[i].data)),
       l \in 1..Len(Entries(files[o].data)) :
      ( /\ o # i
        /\ IsResource(Entries(files[o].data)[l], "Organization")
        /\ IdOf(Entries(files[o].data)[l]) # ""
        /\ Carries(Entries(files[o].data)[l], "ORG-42")
        /\ IsResource(Entries(files[i].data)[j], "Organization")
        /\ IdOf(Entries(files[i].data)[j]) # ""
        /\ Carries(Entries(files[i].data)[j], "ORG-42")
        /\ IsResource(Entries(files[i].data)[k], "ExplanationOfBenefit") ) =>
        StrIs(Sub(Entries(files[i].data)[k], <<"resource", "provider", "reference">>),
              "Organization/" \o IdOf(Entries(files[i].data)[j]))

\* no object of x, at any depth, has a field named period
RECURSIVE NoPeriod(_)
NoPeriod(x) ==
  IF IsObj(x) THEN "period" \notin DOMAIN x.v /\ \A k \in DOMAIN x.v : NoPeriod(x.v[k])
  ELSE IF IsList(x) THEN \A i \in 1..Len(x.v) : NoPeriod(x.v[i])
  ELSE TRUE

(* C10: no object anywhere in a document process has written has a field   *)
(* named period, at any depth.                                             *)
NoPeriodInWritten == \A i \in Written : NoPeriod(files[i].data)

\* a MedicationRequest whose requester (a reference left unresolved) and whose
\* dosageInstruction item (timing.repeat) had a period has been written, the
\* requester and the timing.repeat still there
PeriodsRemoved ==
  \E i \in Written :
    \E j \in 1..Len(Entries(files[i].data)) :
      /\ IsResource(Entries(files[i].data)[j], "MedicationRequest")
      /\ StrIs(Sub(Entries(files[i].data)[j], <<"resource", "requester", "reference">>),
               "urn:uuid:" \o UnknownUuid)
      /\ IsObj(Sub(Item(Sub(Entries(files[i].data)[j], <<"resource", "dosageInstruction">>), 1),
                   <<"timing", "repeat">>))
      /\ NoPeriod(files[i].data)


----------------------------------------------------------------------------
(* Two passes. *)

\* the objects of x that have a reference string, each as <<path to it, reference>>
RECURSIVE RefPaths(_)
RefPaths(x) ==
  IF IsObj(x)
  THEN (IF HasRef(x) THEN {<<<<>>, Ref(x)>>} ELSE {}) \cup
       UNION { { <<<<k>> \o p[1], p[2]>> : p \in RefPaths(x.v[k]) } : k \in DOMAIN x.v }
  ELSE IF IsList(x)
  THEN UNION { { <<<<ToString(i)>> \o p[1], p[2]>> : p \in RefPaths(x.v[i]) }
               : i \in 1..Len(x.v) }
  ELSE {}

\* the number of objects of x whose reference is r
Occurrences(x, r) == Cardinality({p \in RefPaths(x) : p[2] = r})

(* C9: every reference the first pass leaves in canonical form,            *)
(* ResourceType/<uuid>, is left unchanged by a second pass over that       *)
(* output with the same maps, neither rewritten nor removed: the result of *)
(* the second call has each canonical reference of the result of the first *)
(* at least as often.                                                      *)
CanonicalReferencesStay ==
  (pc = "rewrite" /\ passes = 2) =>
    \A p \in RefPaths(tree) :
      Canonical(p[2]) => Occurrences(out, p[2]) >= Occurrences(tree, p[2])

(* C9, for process: a second run of main leaves every canonical reference  *)
(* of the documents the first run has written: a call of process_json_file *)
(* in the second run does not lower the number of objects of a file that   *)
(* have a given canonical reference.                                       *)
SecondProcessKeepsCanonical ==
  [][ (pc = "process" /\ run = 2) =>
        \A i \in DOMAIN files :
          \A p \in RefPaths(files[i].data) :
            Canonical(p[2]) =>
              Occurrences(files'[i].data, p[2]) >= Occurrences(files[i].data, p[2]) ]_vars


----------------------------------------------------------------------------
(* Failures of one document. *)

\* lines 395-407: an entry of the loop over data["entry"] raises: it is no dict, its
\* resource is no dict, or its identifiers raise
EntriesRaise(entries) ==
  \E k \in 1..Len(entries) :
    \/ ~IsObj(entries[k])
    \/ ~IsObj(GetOr(entries[k], "resource", Obj(<<>>)))
    \/ ResourceIdentifiers(<<>>, GetOr(entries[k], "resource", Obj(<<>>))).raised

\* lines 390-409: the try block of build_global_identifier_map raises on the file
AggregateRaises(file) ==
  \/ file.t = "malformed"
  \/ ~IsObj(file)
  \/ /\ IsBundleWithEntry(file)
     /\ \/ NotIterable(file.v["entry"])
        \/ YieldsStrs(file.v["entry"])
        \/ EntriesRaise(Items(file.v["entry"]))

\* lines 340-372: the try block of process_json_file raises on the file, whatever
\* uuid.uuid4() returns
ProcessRaises(file) ==
  \/ file.t = "malformed"
  \/ build_uuid_to_resource_type_map(file).raised
  \/ add_coverage_resources(file, DefaultOrganizationId,
                            [k \in 1..Uuid4Calls(file) |-> PatientUuid]).raised

\* the global map after the first k files of the list, a file on which the aggregation
\* fails contributing nothing
RECURSIVE MapOfTheOthers(_)
MapOfTheOthers(k) ==
  IF k = 0 THEN <<>>
  ELSE IF AggregateRaises(files[json_files[k]].data) THEN MapOfTheOthers(k - 1)
  ELSE AggregateOne(MapOfTheOthers(k - 1), files[json_files[k]].data)

(* C11: a failure on one document never stops the batch.  When the         *)
(* aggregation pass is over, the global map is the one the documents that  *)
(* did not fail contribute, in list order, a failing document having       *)
(* contributed nothing; when the rewrite pass is over, every document of   *)
(* the list that does not itself fail has been written back.               *)
FailureIsolated ==
  /\ (pc = "process" /\ idx = 1) => global_identifier_map = MapOfTheOthers(Len(json_files))
  /\ (pc = "done" /\ run > 0) =>
       \A k \in 1..Len(json_files) :
         files[json_files[k]].name \in updated \/ ProcessRaises(files[json_files[k]].data)

\* the aggregation pass alone: a document that cannot be read or parsed, or whose root is
\* no object, contributes nothing, and the documents after it contribute
ReadFailureIsolated ==
  (pc = "process" /\ idx = 1) =>
    \A k \in 1..Len(json_files) :
      (files[json_files[k]].data.t = "malformed" \/ ~IsObj(files[json_files[k]].data)) =>
        /\ AggregateOne(<<>>, files[json_files[k]].data) = <<>>
        /\ \A l \in (k + 1)..Len(json_files) :
             DOMAIN AggregateOne(<<>>, files[json_files[l]].data) \subseteq DOMAIN global_identifier_map

\* the rewrite pass alone: every document of the list that does not itself fail has been
\* written back
OthersWritten ==
  (pc = "done" /\ run > 0) =>
    \A k \in 1..Len(json_files) :
      files[json_files[k]].name \in updated \/ ProcessRaises(files[json_files[k]].data)


----------------------------------------------------------------------------
(* Coverage injection over several runs. *)

\* the Bundle has a Patient entry with an id
APatientHasId(data) ==
  \E p \in 1..Len(Entries(data)) :
    IsResource(Entries(data)[p], "Patient") /\ IdOf(Entries(data)[p]) # ""

\* the first Patient entry of the Bundle has an id: patient_id of line 266 is set
FirstPatientHasId(data) ==
  /\ Entries(data) # <<>>
  /\ ~FirstPatientId(Entries(data)).raised
  /\ Truthy(FirstPatientId(Entries(data)).patient_id)

\* the ExplanationOfBenefit entry j of the entries is right after a Coverage entry, and
\* its insurance list has one item, which refers to that Coverage
LinkedToCoverageBefore(entries, j) ==
  /\ j > 1
  /\ IsResource(entries[j - 1], "Coverage")
  /\ IdOf(entries[j - 1]) # ""
  /\ IsList(Sub(entries[j], <<"resource", "insurance">>))
  /\ Len(Sub(entries[j], <<"resource", "insurance">>).v) = 1
  /\ StrIs(Sub(Item(Sub(entries[j], <<"resource", "insurance">>), 1), <<"coverage", "reference">>),
           "Coverage/" \o IdOf(entries[j - 1]))

\* the number of Coverage entries in a row right before entry j
RECURSIVE CoverageRun(_, _)
CoverageRun(entries, j) ==
  IF j > 1 /\ IsResource(entries[j - 1], "Coverage") THEN 1 + CoverageRun(entries, j - 1) ELSE 0

\* a call of process_json_file has added one entry for each ExplanationOfBenefit entry
\* of the Bundle, and every ExplanationOfBenefit entry is linked to the Coverage before it
InsertedOnce(before, after) ==
  /\ Len(Entries(after)) = Len(Entries(before)) + CountEob(Entries(before))
  /\ \A j \in 1..Len(Entries(after)) :
       IsResource(Entries(after)[j], "ExplanationOfBenefit") => LinkedToCoverageBefore(Entries(after), j)

\* after n runs every ExplanationOfBenefit entry of the Bundle is right after n Coverage
\* entries (the documents of the model have none before the first run)
CoverageRunsOf(data, n) ==
  \A j \in 1..Len(Entries(data)) :
    IsResource(Entries(data)[j], "ExplanationOfBenefit") => CoverageRun(Entries(data), j) = n

(* C12: each run of process on a Bundle that has a Patient with an id      *)
(* inserts one new Coverage entry before every ExplanationOfBenefit entry, *)
(* whatever Coverage entries are there: the entry count grows by the       *)
(* number of ExplanationOfBenefit entries, each ExplanationOfBenefit's     *)
(* insurance list refers only to the Coverage right before it, and after n *)
(* runs each ExplanationOfBenefit is preceded by n Coverage entries.       *)
CoverageInsertedEachRun ==
  /\ [][ pc = "process" =>
           (APatientHasId(files[json_files[idx]].data) =>
              InsertedOnce(files[json_files[idx]].data, files'[json_files[idx]].data)) ]_vars
  /\ [](pc = "done" =>
          \A i \in DOMAIN files :
            APatientHasId(files[i].data) => CoverageRunsOf(files[i].data, run))

(* C12, amended: the same of each run of process that writes the Bundle    *)
(* back, when the first Patient entry of the Bundle has an id.             *)
CoverageInsertedEachCompletedRun ==
  /\ [][ pc = "process" =>
           ( ( /\ FirstPatientHasId(files[json_files[idx]].data)
               /\ files[json_files[idx]].name \in updated' ) =>
              InsertedOnce(files[json_files[idx]].data, files'[json_files[idx]].data)) ]_vars
  /\ [](pc = "done" =>
          \A i \in Written :
            FirstPatientHasId(files[i].data) => CoverageRunsOf(files[i].data, run))

\* two runs are over, and a written Bundle whose first Patient has an id has two
\* ExplanationOfBenefit entries, each right after two Coverage entries of different ids
\* and linked to the nearer one
CoverageInsertedTwice ==
  /\ pc = "done" /\ run = 2
  /\ \E i \in Written :
       /\ FirstPatientHasId(files[i].data)
       /\ CountEob(Entries(files[i].data)) = 2
       /\ \A j \in 1..Len(Entries(files[i].data)) :
            IsResource(Entries(files[i].data)[j], "ExplanationOfBenefit") =>
              /\ CoverageRun(Entries(files[i].data), j) = 2
              /\ IdOf(Entries(files[i].data)[j - 1]) # IdOf(Entries(files[i].data)[j - 2])
              /\ LinkedToCoverageBefore(Entries(files[i].data), j)
====
